---- MODULE Spec2Model ----
(***************************************************************************)
(* Peer code review server (server.js, routes/code.js, models/Code.js).    *)
(*                                                                         *)
(* The state is the three MongoDB collections of server.js (users,         *)
(* codesnippets, feedbacks), the collection of models/Code.js used by the  *)
(* router, the wall clock, and a fixed pool of request slots.  Every       *)
(* handler is an async function: the code between two awaits runs without  *)
(* interruption on the single JavaScript thread, so one action of the      *)
(* model is "the awaited operation of request r completes (a repository    *)
(* call takes effect atomically at that instant) and the handler runs up   *)
(* to its next await or to its response".  pc names the await a request    *)
(* is suspended at.                                                        *)
(***************************************************************************)
EXTENDS Integers, Sequences, FiniteSets, TLC

\* ------------------------------------------------------------------ bounds
MaxUsers == 2
MaxSnippets == 2
MaxFeedbacks == 2
MaxCodes == 2
\* the clock visits offsets 0..MaxOffset (in ticks) of hours 0..MaxHours
MaxHours == 1
MaxOffset == 1
\* the resolution of the clock: jsonwebtoken keeps iat and exp in whole seconds,
\* Date.now() is finer (1000 to the second; the model takes this many)
TicksPerSecond == 2

\* ------------------------------------------------------- program constants
\* expiresIn: '1h'
ExpiresIn == 3600
TicksPerHour == ExpiresIn * TicksPerSecond

Reqs == {"r1", "r2"}
Emails == {"a@x", "b@x"}
Passwords == {"pw1"}
WrongPasswords == {"pw2"}
Codes == {"print(1)"}
Languages == {}
Texts == {"looks fine"}
\* a falsy (absent or empty) body field
Empty == ""

\* req.body.codeSnippetId: absent/empty, a string that is no ObjectId, or ObjectId n >= 1
IdAbsent == 0
IdUncastable == -1
\* an ObjectId that no collection holds
UnknownId == 0

\* JavaScript null, and a field that is not set
Null == [null |-> TRUE]

Instants == {h * TicksPerHour + o : h \in 0..MaxHours, o \in 0..MaxOffset}

\* users, snippets, feedbacks: the collections of server.js, in insertion order
\* codes: the collection of models/Code.js
\* clock: Date.now(), in ticks
\* req: the requests in flight, one per slot
\* sent: the request the last step answered, with its response (pc = "done"),
\*       or IdleReq when the last step sent no response
\* registered: what register has answered 201 so far, and when
\* held: the token of the latest login
VARIABLES users, snippets, feedbacks, codes, clock, req, sent, registered, held

vars == <<users, snippets, feedbacks, codes, clock, req, sent, registered, held>>
stores == <<users, snippets, feedbacks, codes>>

\* ------------------------------------------------------------ pure helpers
\* bcrypt.hash(password, 12) and bcrypt.compare(password, hash)
Hash(password) == <<"bcrypt", password>>
\* a comparison of the password with the stored value as it stands
ComparePlain(password, hash) == hash = password
\* bcrypt.compare(password, hash)
CompareHash(password, hash) == hash = Hash(password)

\* Math.floor(Date.now() / 1000)
ClockTimestamp(now) == now \div TicksPerSecond

\* jwt.sign({ id }, JWT_SECRET, { expiresIn: '1h' })
JwtSign(id, now) ==
  [sig |-> TRUE, id |-> id, iat |-> ClockTimestamp(now),
   exp |-> ClockTimestamp(now) + ExpiresIn]

\* a verification that still accepts the token in the second it expires
JwtVerifyLate(token, now) ==
  IF ~token.sig THEN "JsonWebTokenError"
  ELSE IF ClockTimestamp(now) > token.exp THEN "TokenExpiredError"
  ELSE "ok"

\* jwt.verify(token, JWT_SECRET): the error name it throws, or "ok"
JwtVerify(token, now) ==
  IF ~token.sig THEN "JsonWebTokenError"
  ELSE IF ClockTimestamp(now) >= token.exp THEN "TokenExpiredError"
  ELSE "ok"

\* a token another key signed, or whose payload was altered
Tamper(token) == [token EXCEPT !.sig = FALSE]
\* tokens this server signed for an identity the store does not hold (any more):
\* one signed as the model starts, one signed an hour before
StaleToken == JwtSign(UnknownId, 0)
ExpiredToken == JwtSign(UnknownId, 0 - TicksPerHour)

\* Model.findOne / findById over a collection kept in insertion order
FirstOrNull(s) == IF Len(s) = 0 THEN Null ELSE s[1]

FindUserById(id) ==
  LET P(u) == u.id = id IN FirstOrNull(SelectSeq(users, P))
FindUserByEmail(email) ==
  LET P(u) == u.email = email IN FirstOrNull(SelectSeq(users, P))

\* .select('-password')
WithoutPassword(u) == [id |-> u.id, email |-> u.email, createdAt |-> u.createdAt]

\* the user object of the register and login responses
UserMeta(u) == [id |-> u.id, email |-> u.email, createdAt |-> u.createdAt]

Response(status, body) == [status |-> status, body |-> body]
Message(m) == [message |-> m]
NoResponse == [status |-> 0, body |-> Null]

\* a slot with no request in flight
IdleReq ==
  [op |-> "none", pc |-> "idle", header |-> [scheme |-> "none", token |-> StaleToken],
   tokenAt |-> 0, body |-> Null, user |-> Null, started |-> FALSE,
   local |-> Null, prior |-> Null, res |-> NoResponse, sends |-> 0]

\* a request as it arrives: op, authorization header, body.  tokenAt (the instant
\* the presented token was signed) and prior (what register answered for the same
\* credentials before this request arrived) are bookkeeping no handler reads.
NewReq(op, header, tokenAt, body) ==
  [IdleReq EXCEPT !.op = op, !.pc = "arrived", !.header = header,
                  !.tokenAt = tokenAt, !.body = body]

\* res.status(status).json(body): the request ends
Finish(q, status, body) ==
  [q EXCEPT !.pc = "done", !.res = Response(status, body), !.sends = @ + 1]

Free(r) == req[r].pc = "idle"
At(r, pc) == req[r].pc = pc
InFlight(ops) == Cardinality({r \in Reqs : ~Free(r) /\ req[r].op \in ops})

\* request r moves on to q: it stays in flight, or its response goes out and its
\* slot is free again
Step(r, q) ==
  IF q.pc = "done"
  THEN req' = [req EXCEPT ![r] = IdleReq] /\ sent' = q
  ELSE req' = [req EXCEPT ![r] = q] /\ sent' = IdleReq

\* the tokens clients hold, each with the instant it was signed: those register
\* signed with its 201 responses, the one of the latest login, and two left over
\* from an identity the store does not hold
HeldTokens ==
  {<<JwtSign(g.user.id, g.at), g.at>> : g \in registered}
  \cup held
  \cup {<<StaleToken, 0>>, <<ExpiredToken, 0 - TicksPerHour>>}

\* the authorization headers a client can send
Headers ==
  {<<[scheme |-> "none", token |-> StaleToken], 0>>,
   <<[scheme |-> "Basic", token |-> StaleToken], 0>>}
  \cup {<<[scheme |-> "Bearer", token |-> t[1]], t[2]>> : t \in HeldTokens}
  \cup {<<[scheme |-> "Bearer", token |-> Tamper(t[1])], t[2]>> : t \in HeldTokens}

\* ----------------------------------------------------------- authenticate
\* a header test that only asks for some Authorization header
NoHeader(header) == header.scheme = "none"
\* !authHeader || !authHeader.startsWith('Bearer ')
NoCredential(header) == header.scheme # "Bearer"

\* authenticate up to its await: the header test and jwt.verify
Authenticate(q) ==
  IF NoCredential(q.header)
  THEN Finish(q, 401, Message("No token provided or malformed token"))
  ELSE LET v == JwtVerify(q.header.token, clock) IN
       IF v = "TokenExpiredError" THEN Finish(q, 401, Message("Token expired"))
       ELSE IF v = "JsonWebTokenError" THEN Finish(q, 401, Message("Invalid token"))
       ELSE [q EXCEPT !.pc = "auth_findById"]

\* language || 'javascript'
LanguageOrDefault(language) == IF language = Empty THEN "javascript" ELSE language

\* !codeSnippetId || !feedbackText
FeedbackInvalid(body) == body.codeSnippetId = IdAbsent \/ body.feedbackText = Empty

\* an attribution to the identity the body names, when it names one
Claimed(q) ==
  LET named == IF q.op = "code" THEN q.body.userId ELSE q.body.reviewerId IN
  IF named = IdAbsent THEN q.user.id ELSE named
\* req.user._id, the identity a handler attributes its record to
Requester(q) == q.user.id

\* next(): the handler behind the guard, up to its first await
StartHandler(q) ==
  CASE q.op = "code" ->
         IF q.body.code = Empty THEN Finish(q, 400, Message("Code is required"))
         ELSE [q EXCEPT !.pc = "code_create",
                        !.local = [code |-> q.body.code,
                                   language |-> LanguageOrDefault(q.body.language),
                                   userId |-> Requester(q), createdAt |-> clock]]
    [] q.op = "random" -> [q EXCEPT !.pc = "random_count"]
    [] q.op = "mine" -> [q EXCEPT !.pc = "mine_find"]
    [] q.op = "feedback" ->
         IF FeedbackInvalid(q.body)
         THEN Finish(q, 400, Message("Code snippet ID and feedback text are required"))
         ELSE [q EXCEPT !.pc = "feedback_findById"]

\* a guard that calls next() and then answers all the same
AuthResumeBoth(q) ==
  LET user == FindUserById(q.header.token.id) IN
  IF user = Null THEN Finish(q, 401, Message("User not found"))
  ELSE Finish(StartHandler([q EXCEPT !.user = WithoutPassword(user),
                                     !.started = TRUE]),
              401, Message("Not authorized"))
\* authenticate after await User.findById(decoded.id).select('-password')
AuthResume(q) ==
  LET user == FindUserById(q.header.token.id) IN
  IF user = Null THEN Finish(q, 401, Message("User not found"))
  ELSE StartHandler([q EXCEPT !.user = WithoutPassword(user), !.started = TRUE])

\* req.body as the handler of each route reads it
\* A body can carry more than the handler reads: a well-formed one may name, as
\* userId or reviewerId, the identity its sender wants the record attributed to.
CodeBodies ==
  [code : Codes \cup {Empty}, language : Languages \cup {Empty}, userId : {IdAbsent}]
  \cup [code : Codes, language : {Empty}, userId : 1..MaxUsers]
FeedbackBodies ==
  [codeSnippetId : {IdAbsent, IdUncastable} \cup (1..MaxSnippets),
   feedbackText : Texts \cup {Empty}, reviewerId : {IdAbsent}]
  \cup [codeSnippetId : 1..MaxSnippets, feedbackText : Texts,
         reviewerId : 1..MaxUsers]
Bodies(op) ==
  CASE op = "code" -> CodeBodies
    [] op = "feedback" -> FeedbackBodies
    [] OTHER -> {Null}

TypeOK ==
  /\ clock \in Instants
  /\ Len(users) <= MaxUsers
  /\ Len(snippets) <= MaxSnippets
  /\ Len(feedbacks) <= MaxFeedbacks
  /\ Len(codes) <= MaxCodes

Init ==
  /\ users = <<>>
  /\ snippets = <<>>
  /\ feedbacks = <<>>
  /\ codes = <<>>
  /\ clock = 0
  /\ req = [r \in Reqs |-> IdleReq]
  /\ sent = IdleReq
  /\ registered = {}
  /\ held = {}

\* time passes
Tick ==
  /\ \E t \in Instants : t > clock /\ clock' = t
  /\ UNCHANGED <<stores, req, registered, held>>
  /\ sent' = IdleReq

\* an hour passes
HourPasses ==
  /\ clock + TicksPerHour \in Instants
  /\ clock' = clock + TicksPerHour
  /\ sent' = IdleReq
  /\ UNCHANGED <<stores, req, registered, held>>

\* ------------------------------------------------ POST /api/auth/register
RegisterBodies == [email : Emails \cup {Empty}, password : Passwords \cup {Empty}]

Register(r) ==
  /\ Free(r)
  /\ Len(users) + InFlight({"register"}) < MaxUsers
  /\ \E body \in RegisterBodies :
       LET q == NewReq("register", IdleReq.header, 0, body) IN
       Step(r,
                 IF body.email = Empty \/ body.password = Empty
                 THEN Finish(q, 400, Message("Email and password are required"))
                 ELSE [q EXCEPT !.pc = "register_findOne"])
  /\ UNCHANGED <<stores, clock, registered, held>>

\* after await User.findOne({ email })
RegisterFindOne(r) ==
  /\ At(r, "register_findOne")
  /\ LET q == req[r]
         existingUser == FindUserByEmail(q.body.email) IN
     Step(r,
               IF existingUser # Null
               THEN Finish(q, 409, Message("Email already registered"))
               ELSE [q EXCEPT !.pc = "register_hash"])
  /\ UNCHANGED <<stores, clock, registered, held>>

\* after await bcrypt.hash(password, 12): User.create builds the document
RegisterHash(r) ==
  /\ At(r, "register_hash")
  /\ LET q == req[r] IN
     Step(r,
               [q EXCEPT !.pc = "register_create",
                         !.local = [email |-> q.body.email,
                                    password |-> Hash(q.body.password),
                                    createdAt |-> clock]])
  /\ UNCHANGED <<stores, clock, registered, held>>

\* a collection without the index lets every insert through
NoIndex(doc) == FALSE
\* the unique index on users.email rejects the insert (E11000)
DuplicateKey(doc) == \E i \in 1..Len(users) : users[i].email = doc.email

\* after await User.create(...): the insert, jwt.sign, the 201 response
RegisterCreate(r) ==
  /\ At(r, "register_create")
  /\ LET q == req[r] IN
     IF DuplicateKey(q.local)
     THEN /\ Step(r, Finish(q, 500, Message("Registration failed")))
          /\ UNCHANGED <<users, registered>>
     ELSE LET user == [id |-> Len(users) + 1, email |-> q.local.email,
                       password |-> q.local.password, createdAt |-> q.local.createdAt]
              out == [token |-> JwtSign(user.id, clock), user |-> UserMeta(user)]
          IN /\ users' = Append(users, user)
             /\ Step(r, Finish(q, 201, out))
             /\ registered' = registered \cup
                  {[email |-> q.body.email, password |-> q.body.password,
                    user |-> out.user, at |-> clock]}
  /\ UNCHANGED <<snippets, feedbacks, codes, clock, held>>

\* --------------------------------------------------- POST /api/auth/login
\* what register answered for these credentials, if it has
PriorRegistration(body) ==
  LET m == {g \in registered : g.email = body.email /\ g.password = body.password}
  IN IF m = {} THEN Null ELSE (CHOOSE g \in m : TRUE).user

LoginBodies ==
  [email : Emails \cup {Empty}, password : Passwords \cup WrongPasswords \cup {Empty}]

Login(r) ==
  /\ Free(r)
  /\ \E body \in LoginBodies :
       LET q == [NewReq("login", IdleReq.header, 0, body) EXCEPT
                   !.prior = PriorRegistration(body)] IN
       Step(r,
                 IF body.email = Empty \/ body.password = Empty
                 THEN Finish(q, 400, Message("Email and password are required"))
                 ELSE [q EXCEPT !.pc = "login_findOne"])
  /\ UNCHANGED <<stores, clock, registered, held>>

\* a response that tells the unknown email apart
LoginUnknownEmail(q) == Finish(q, 404, Message("User not found"))
\* the response of login when no user has the email
LoginNoUser(q) == Finish(q, 401, Message("Invalid credentials"))
\* the response of login when the password does not match
LoginNoMatch(q) == Finish(q, 401, Message("Invalid credentials"))

\* after await User.findOne({ email })
LoginFindOne(r) ==
  /\ At(r, "login_findOne")
  /\ LET q == req[r]
         user == FindUserByEmail(q.body.email) IN
     Step(r,
               IF user = Null THEN LoginNoUser(q)
               ELSE [q EXCEPT !.pc = "login_compare", !.local = user])
  /\ UNCHANGED <<stores, clock, registered, held>>

\* after await bcrypt.compare(password, user.password)
LoginCompare(r) ==
  /\ At(r, "login_compare")
  /\ LET q == req[r]
         user == q.local IN
     Step(r, IF ~CompareHash(q.body.password, user.password) THEN LoginNoMatch(q)
             ELSE Finish(q, 200, [token |-> JwtSign(user.id, clock),
                                  user |-> UserMeta(user)]))
  /\ UNCHANGED <<stores, clock, registered, held>>

\* the client keeps the token that login has just returned
Keep ==
  /\ sent.pc = "done" /\ sent.op = "login" /\ sent.res.status = 200
  /\ held' = {<<sent.res.body.token, clock>>}
  /\ sent' = IdleReq
  /\ UNCHANGED <<stores, clock, req, registered>>

\* a request for a route behind authenticate arrives; its body is drawn when
\* the handler reads it
Arrive(r, op) ==
  /\ Free(r)
  /\ \E h \in Headers :
       Step(r, Authenticate(NewReq(op, h[1], h[2], Null)))
  /\ UNCHANGED <<stores, clock, registered, held>>

SubmitCode(r) ==
  /\ Len(snippets) + InFlight({"code"}) < MaxSnippets
  /\ Arrive(r, "code")

GetRandom(r) == Arrive(r, "random")

MySubmissions(r) == Arrive(r, "mine")

SubmitFeedback(r) ==
  /\ Len(feedbacks) + InFlight({"feedback"}) < MaxFeedbacks
  /\ Arrive(r, "feedback")

AuthFindById(r) ==
  /\ At(r, "auth_findById")
  /\ \E body \in Bodies(req[r].op) :
       Step(r, AuthResume([req[r] EXCEPT !.body = body]))
  /\ UNCHANGED <<stores, clock, registered, held>>

\* -------------------------------------------------------- POST /api/code
\* after await CodeSnippet.create(...)
CodeCreate(r) ==
  /\ At(r, "code_create")
  /\ LET q == req[r]
         snippet == [id |-> Len(snippets) + 1, code |-> q.local.code,
                     language |-> q.local.language, userId |-> q.local.userId,
                     createdAt |-> q.local.createdAt]
     IN /\ snippets' = Append(snippets, snippet)
        /\ Step(r, Finish(q, 201, snippet))
  /\ UNCHANGED <<users, feedbacks, codes, clock, registered, held>>

\* -------------------------------------------------- GET /api/code/random
\* a filter that lets every snippet through
AnySnippet(snippet, id) == TRUE
\* the filter { userId: { $ne: req.user._id } }
NotOwnedBy(snippet, id) == snippet.userId # id

Eligible(id) == LET P(s) == NotOwnedBy(s, id) IN SelectSeq(snippets, P)

\* an offset that stays where the last answered pick was
OffsetsOfLast(count) ==
  IF sent.op = "random" /\ sent.local # Null /\ sent.local.random < count
  THEN {sent.local.random} ELSE 0..(count - 1)
\* an offset that never reaches the last match
OffsetsButLast(count) == 0..(count - 2)
\* Math.floor(Math.random() * count): the offsets a call can draw
Offsets(count) == 0..(count - 1)

\* after await CodeSnippet.countDocuments(...): Math.random() picks the offset
RandomCount(r) ==
  /\ At(r, "random_count")
  /\ LET q == req[r]
         count == Len(Eligible(q.user.id)) IN
     IF count = 0
     THEN Step(r,
                    Finish(q, 404, Message("No code available for review")))
     ELSE \E random \in Offsets(count) :
            Step(r,
                      [q EXCEPT !.pc = "random_findOne",
                                !.local = [count |-> count, random |-> random]])
  /\ UNCHANGED <<stores, clock, registered, held>>

\* findOne(filter).skip(random): the document after the first `random` matches
FindOneSkip(matches, random) ==
  IF random < Len(matches) THEN matches[random + 1] ELSE Null

\* after await CodeSnippet.findOne(...).skip(random)
RandomFindOne(r) ==
  /\ At(r, "random_findOne")
  /\ LET q == req[r]
         snippet == FindOneSkip(Eligible(q.user.id), q.local.random) IN
     Step(r, Finish(q, 200, snippet))
  /\ UNCHANGED <<stores, clock, registered, held>>

\* ------------------------------------------ GET /api/code/my-submissions
OwnedBy(id) == LET P(s) == s.userId = id IN SelectSeq(snippets, P)

\* after await CodeSnippet.find({ userId: req.user._id }).lean()
MineFind(r) ==
  /\ At(r, "mine_find")
  /\ LET q == req[r] IN
     Step(r,
               [q EXCEPT !.pc = "mine_feedbacks", !.local = OwnedBy(q.user.id)])
  /\ UNCHANGED <<stores, clock, registered, held>>

\* .populate('reviewerId', 'email')
Populate(f) ==
  LET u == FindUserById(f.reviewerId) IN
  [f EXCEPT !.reviewerId = IF u = Null THEN Null ELSE [id |-> u.id, email |-> u.email]]

\* Feedback.find({ codeSnippetId: { $in: snippetIds } }).populate(...).lean()
FeedbacksIn(snippetIds) ==
  LET P(f) == f.codeSnippetId \in snippetIds
      found == SelectSeq(feedbacks, P)
  IN [i \in 1..Len(found) |-> Populate(found[i])]

\* a join that attaches all the feedback found to every snippet
GroupOfAll(found, snippet) == found
\* feedbacks.filter(f => f.codeSnippetId.toString() === snippet._id.toString())
GroupOf(found, snippet) ==
  LET P(f) == f.codeSnippetId = snippet.id IN SelectSeq(found, P)

\* snippets.map(snippet => ({ ...snippet, feedbacks: ... }))
WithFeedback(owned, found) ==
  [i \in 1..Len(owned) |->
     [id |-> owned[i].id, code |-> owned[i].code, language |-> owned[i].language,
      userId |-> owned[i].userId, createdAt |-> owned[i].createdAt,
      feedbacks |-> GroupOf(found, owned[i])]]

\* after await Feedback.find(...)
MineFeedbacks(r) ==
  /\ At(r, "mine_feedbacks")
  /\ LET q == req[r]
         owned == q.local
         snippetIds == {owned[i].id : i \in 1..Len(owned)}
     IN Step(r,
                  Finish(q, 200, WithFeedback(owned, FeedbacksIn(snippetIds))))
  /\ UNCHANGED <<stores, clock, registered, held>>

\* ---------------------------------------------------- POST /api/feedback
FindSnippetById(id) ==
  LET P(s) == s.id = id IN FirstOrNull(SelectSeq(snippets, P))

\* an ownership test that never fires
NeverOwnSnippet(snippet, user) == FALSE
\* an ownership test that compares the wrong ids
IsOwnId(snippet, user) == snippet.id = user.id
\* snippet.userId.toString() === req.user._id.toString()
IsOwnSnippet(snippet, user) == snippet.userId = user.id

\* a handler that stores the feedback before it looks at the snippet
FeedbackCheckAfterCreate(r) ==
  /\ At(r, "feedback_findById")
  /\ LET q == req[r]
         snippet == FindSnippetById(q.body.codeSnippetId)
         feedback == [id |-> Len(feedbacks) + 1,
                      codeSnippetId |-> q.body.codeSnippetId,
                      reviewerId |-> q.user.id,
                      feedbackText |-> q.body.feedbackText,
                      createdAt |-> clock]
     IN /\ feedbacks' = Append(feedbacks, feedback)
        /\ Step(r, IF snippet = Null
                   THEN Finish(q, 404, Message("Code snippet not found"))
                   ELSE IF IsOwnSnippet(snippet, q.user)
                   THEN Finish(q, 403, Message("You cannot review your own code"))
                   ELSE Finish(q, 201, feedback))
  /\ UNCHANGED <<users, snippets, codes, clock, registered, held>>

\* after await CodeSnippet.findById(codeSnippetId): a string that is no
\* ObjectId makes findById throw a CastError, which the catch answers with 500
FeedbackFindById(r) ==
  /\ At(r, "feedback_findById")
  /\ LET q == req[r]
         snippet == FindSnippetById(q.body.codeSnippetId) IN
     Step(r,
               IF q.body.codeSnippetId = IdUncastable
               THEN Finish(q, 500, Message("Failed to submit feedback"))
               ELSE IF snippet = Null
               THEN Finish(q, 404, Message("Code snippet not found"))
               ELSE IF IsOwnSnippet(snippet, q.user)
               THEN Finish(q, 403, Message("You cannot review your own code"))
               ELSE [q EXCEPT !.pc = "feedback_create",
                              !.local = [codeSnippetId |-> q.body.codeSnippetId,
                                         reviewerId |-> Requester(q),
                                         feedbackText |-> q.body.feedbackText,
                                         createdAt |-> clock]])
  /\ UNCHANGED <<stores, clock, registered, held>>

\* after await Feedback.create(...)
FeedbackCreate(r) ==
  /\ At(r, "feedback_create")
  /\ LET q == req[r]
         feedback == [id |-> Len(feedbacks) + 1,
                      codeSnippetId |-> q.local.codeSnippetId,
                      reviewerId |-> q.local.reviewerId,
                      feedbackText |-> q.local.feedbackText,
                      createdAt |-> q.local.createdAt]
     IN /\ feedbacks' = Append(feedbacks, feedback)
        /\ Step(r, Finish(q, 201, feedback))
  /\ UNCHANGED <<users, snippets, codes, clock, registered, held>>

\* ---------------------------------------------------------- routes/code.js
\* The router's guard, require('../middleware/auth'): the Access Guard, which
\* resolves the bearer token to a stored identity or answers 401.  The identity
\* it resolves, or Null.
AuthMiddleware(header) ==
  IF NoCredential(header) \/ JwtVerify(header.token, clock) # "ok" THEN Null
  ELSE FindUserById(header.token.id)

\* a request for a route of the router arrives and passes its guard or not
RouterArrive(r, op, body, pc, local) ==
  /\ Free(r)
  /\ \E user \in {AuthMiddleware(h[1]) : h \in Headers} :
       LET q == NewReq(op, IdleReq.header, 0, Null) IN
       Step(r, IF user = Null THEN Finish(q, 401, Message("Not authorized"))
               ELSE [q EXCEPT !.user = WithoutPassword(user), !.started = TRUE,
                              !.body = body, !.pc = pc, !.local = local])
  /\ UNCHANGED <<stores, clock, registered, held>>

\* router.post('/'): new Code({ user: req.user.id, code }) up to await save()
RouterSubmit(r) ==
  /\ Len(codes) + InFlight({"r_code"}) < MaxCodes
  /\ \E code \in Codes \cup {Empty} :
       RouterArrive(r, "r_code", [code |-> code], "rcode_save",
                    [code |-> code, createdAt |-> clock])

\* after await newCode.save()
RouterSave(r) ==
  /\ At(r, "rcode_save")
  /\ LET q == req[r]
         newCode == [id |-> Len(codes) + 1, user |-> q.user.id, code |-> q.local.code,
                     createdAt |-> q.local.createdAt, feedbacks |-> <<>>]
     IN /\ codes' = Append(codes, newCode)
        /\ Step(r, Finish(q, 201, Message("Code submitted")))
  /\ UNCHANGED <<users, snippets, feedbacks, clock, registered, held>>

\* router.get('/random')
RouterRandom(r) == RouterArrive(r, "r_random", Null, "rrandom_find", Null)

\* Code.find({ user: { $ne: req.user.id } })
CodesNotOf(id) == LET P(c) == c.user # id IN SelectSeq(codes, P)

\* the answer of router.get('/random') when nothing matches
RouterNoneFound(q) == Finish(q, 200, [code |-> Null])

\* snippets[Math.floor(Math.random() * snippets.length)]
ArrayPick(found, random) == found[random + 1]

\* after await Code.find(...)
RouterRandomFind(r) ==
  /\ At(r, "rrandom_find")
  /\ LET q == req[r]
         found == CodesNotOf(q.user.id) IN
     IF Len(found) = 0
     THEN Step(r, RouterNoneFound(q))
     ELSE \E random \in Offsets(Len(found)) :
            LET picked == ArrayPick(found, random) IN
            Step(r, Finish(q, 200, [code |-> picked.code, id |-> picked.id]))
  /\ UNCHANGED <<stores, clock, registered, held>>

\* router.get('/mine')
RouterMine(r) == RouterArrive(r, "r_mine", Null, "rmine_find", Null)

CodesOf(id) == LET P(c) == c.user = id IN SelectSeq(codes, P)

\* .sort({ createdAt: -1 }): the order of equal keys is MongoDB's to choose
SortedNewestFirst(coll) ==
  {s \in [1..Len(coll) -> {coll[i] : i \in 1..Len(coll)}] :
     /\ \A i, j \in 1..Len(coll) : i # j => s[i] # s[j]
     /\ \A i, j \in 1..Len(coll) : i < j => s[i].createdAt >= s[j].createdAt}

\* after await Code.find({ user: req.user.id }).sort({ createdAt: -1 })
RouterMineFind(r) ==
  /\ At(r, "rmine_find")
  /\ \E sorted \in SortedNewestFirst(CodesOf(req[r].user.id)) :
       Step(r, Finish(req[r], 200, [codes |-> sorted]))
  /\ UNCHANGED <<stores, clock, registered, held>>

\* -------------------------------------------------------- specifications
\* server.js serving clients that register and use the routes behind authenticate
Next ==
  \/ \E r \in Reqs : Register(r)
  \/ \E r \in Reqs : RegisterFindOne(r)
  \/ \E r \in Reqs : RegisterHash(r)
  \/ \E r \in Reqs : RegisterCreate(r)
  \/ \E r \in Reqs : SubmitCode(r)
  \/ \E r \in Reqs : GetRandom(r)
  \/ \E r \in Reqs : MySubmissions(r)
  \/ \E r \in Reqs : SubmitFeedback(r)
  \/ \E r \in Reqs : AuthFindById(r)
  \/ \E r \in Reqs : CodeCreate(r)
  \/ \E r \in Reqs : RandomCount(r)
  \/ \E r \in Reqs : RandomFindOne(r)
  \/ \E r \in Reqs : MineFind(r)
  \/ \E r \in Reqs : MineFeedbacks(r)
  \/ \E r \in Reqs : FeedbackFindById(r)
  \/ \E r \in Reqs : FeedbackCreate(r)

Spec == Init /\ [][Next]_vars

\* server.js serving clients that register and log in, while time passes
AuthNext ==
  \/ Tick
  \/ \E r \in Reqs : Register(r)
  \/ \E r \in Reqs : RegisterFindOne(r)
  \/ \E r \in Reqs : RegisterHash(r)
  \/ \E r \in Reqs : RegisterCreate(r)
  \/ \E r \in Reqs : Login(r)
  \/ \E r \in Reqs : LoginFindOne(r)
  \/ \E r \in Reqs : LoginCompare(r)

AuthSpec == Init /\ [][AuthNext]_vars

\* server.js serving one request at a time to clients that register, log in, keep
\* their tokens and present them to the read-only routes, while time passes
OneAtATime(r) ==
  \/ Register(r)
  \/ RegisterFindOne(r)
  \/ RegisterHash(r)
  \/ RegisterCreate(r)
  \/ Login(r)
  \/ LoginFindOne(r)
  \/ LoginCompare(r)
  \/ GetRandom(r)
  \/ MySubmissions(r)
  \/ AuthFindById(r)
  \/ RandomCount(r)
  \/ MineFind(r)
  \/ MineFeedbacks(r)

ClockNext ==
  \/ Tick
  \/ Keep
  \/ OneAtATime("r1")

ClockSpec == Init /\ [][ClockNext]_vars

\* routes/code.js mounted behind its guard, next to register
RouterNext ==
  \/ HourPasses
  \/ \E r \in Reqs : Register(r)
  \/ \E r \in Reqs : RegisterFindOne(r)
  \/ \E r \in Reqs : RegisterHash(r)
  \/ \E r \in Reqs : RegisterCreate(r)
  \/ \E r \in Reqs : RouterSubmit(r)
  \/ \E r \in Reqs : RouterSave(r)
  \/ \E r \in Reqs : RouterRandom(r)
  \/ \E r \in Reqs : RouterRandomFind(r)
  \/ \E r \in Reqs : RouterMine(r)
  \/ \E r \in Reqs : RouterMineFind(r)

RouterSpec == Init /\ [][RouterNext]_vars

\* the response of the catch block that encloses the await q is suspended at
CatchResponse(q) ==
  IF q.pc = "auth_findById" THEN Finish(q, 401, Message("Not authorized"))
  ELSE CASE q.op = "register" -> Finish(q, 500, Message("Registration failed"))
         [] q.op = "login" -> Finish(q, 500, Message("Login failed"))
         [] q.op = "code" -> Finish(q, 500, Message("Failed to submit code"))
         [] q.op = "random" -> Finish(q, 500, Message("Failed to fetch random code"))
         [] q.op = "mine" ->
              Finish(q, 500, Message("Failed to fetch submissions and feedback"))
         [] q.op = "feedback" -> Finish(q, 500, Message("Failed to submit feedback"))

RepositoryCalls ==
  {"register_findOne", "register_create", "login_findOne", "auth_findById",
   "code_create", "random_count", "random_findOne", "mine_find", "mine_feedbacks",
   "feedback_findById", "feedback_create"}

\* the repository call request r awaits fails: the promise rejects, nothing is
\* stored, and the enclosing catch answers
RepositoryFails(r) ==
  /\ req[r].pc \in RepositoryCalls
  /\ Step(r, CatchResponse(req[r]))
  /\ UNCHANGED <<stores, clock, registered, held>>

\* the call request r awaits returns and its handler runs on
Continue(r) ==
  \/ RegisterFindOne(r)
  \/ RegisterHash(r)
  \/ RegisterCreate(r)
  \/ LoginFindOne(r)
  \/ LoginCompare(r)
  \/ AuthFindById(r)
  \/ CodeCreate(r)
  \/ RandomCount(r)
  \/ RandomFindOne(r)
  \/ MineFind(r)
  \/ MineFeedbacks(r)
  \/ FeedbackFindById(r)
  \/ FeedbackCreate(r)

\* server.js serving one client that uses every route and a second that submits
\* code, with repository calls that return or fail
LiveNext ==
  \/ Register("r1")
  \/ Login("r1")
  \/ SubmitCode("r1")
  \/ GetRandom("r1")
  \/ MySubmissions("r1")
  \/ SubmitFeedback("r1")
  \/ SubmitCode("r2")
  \/ \E r \in Reqs : Continue(r)
  \/ \E r \in Reqs : RepositoryFails(r)

\* every awaited call eventually returns or fails
LiveSpec ==
  /\ Init /\ [][LiveNext]_vars
  /\ \A r \in Reqs : WF_vars(Continue(r) \/ RepositoryFails(r))

\* routes/code.js serving clients that submit code and list their own, while
\* time passes in steps shorter than the life of a token
ListNext ==
  \/ Tick
  \/ \E r \in Reqs : Register(r)
  \/ \E r \in Reqs : RegisterFindOne(r)
  \/ \E r \in Reqs : RegisterHash(r)
  \/ \E r \in Reqs : RegisterCreate(r)
  \/ \E r \in Reqs : RouterSubmit(r)
  \/ \E r \in Reqs : RouterSave(r)
  \/ \E r \in Reqs : RouterMine(r)
  \/ \E r \in Reqs : RouterMineFind(r)

ListSpec == Init /\ [][ListNext]_vars

\* server.js and routes/code.js serving clients that submit code and ask for code
\* to review
PickNext ==
  \/ \E r \in Reqs : Register(r)
  \/ \E r \in Reqs : RegisterFindOne(r)
  \/ \E r \in Reqs : RegisterHash(r)
  \/ \E r \in Reqs : RegisterCreate(r)
  \/ \E r \in Reqs : SubmitCode(r)
  \/ \E r \in Reqs : GetRandom(r)
  \/ \E r \in Reqs : AuthFindById(r)
  \/ \E r \in Reqs : CodeCreate(r)
  \/ \E r \in Reqs : RandomCount(r)
  \/ \E r \in Reqs : RandomFindOne(r)
  \/ \E r \in Reqs : RouterSubmit(r)
  \/ \E r \in Reqs : RouterSave(r)
  \/ \E r \in Reqs : RouterRandom(r)
  \/ \E r \in Reqs : RouterRandomFind(r)

PickSpec == Init /\ [][PickNext]_vars

\* server.js serving clients that register, log in and use the routes behind
\* authenticate
ServerNext ==
  \/ Next
  \/ \E r \in Reqs : Login(r)
  \/ \E r \in Reqs : LoginFindOne(r)
  \/ \E r \in Reqs : LoginCompare(r)

ServerSpec == Init /\ [][ServerNext]_vars

\* The codesnippets collection lives in MongoDB, which other clients than this
\* server can write to: server.js itself has no route that deletes.  Such a
\* client deletes the snippet stored last.
RemoveSnippet ==
  /\ Len(snippets) > 0
  /\ snippets' = SubSeq(snippets, 1, Len(snippets) - 1)
  /\ sent' = IdleReq
  /\ UNCHANGED <<users, feedbacks, codes, clock, req, registered, held>>

\* server.js serving clients that register, submit code and ask for code to
\* review, next to a client of the database that deletes snippets
ShrinkNext ==
  \/ RemoveSnippet
  \/ \E r \in Reqs : Register(r)
  \/ \E r \in Reqs : RegisterFindOne(r)
  \/ \E r \in Reqs : RegisterHash(r)
  \/ \E r \in Reqs : RegisterCreate(r)
  \/ \E r \in Reqs : SubmitCode(r)
  \/ \E r \in Reqs : GetRandom(r)
  \/ \E r \in Reqs : AuthFindById(r)
  \/ \E r \in Reqs : CodeCreate(r)
  \/ \E r \in Reqs : RandomCount(r)
  \/ \E r \in Reqs : RandomFindOne(r)

ShrinkSpec == Init /\ [][ShrinkNext]_vars

\* ================================================================ claims
Protected == {"code", "random", "mine", "feedback"}
Answered(op) == sent.pc = "done" /\ sent.op = op
Stored(coll) == {coll[i] : i \in 1..Len(coll)}

\* C1: every stored feedback references a stored snippet whose owner is not the
\* feedback's reviewer.
C1_ReviewerIsNotOwner ==
  \A f \in Stored(feedbacks) :
    \E s \in Stored(snippets) : s.id = f.codeSnippetId /\ s.userId # f.reviewerId

\* a feedback is stored while its reviewer owns a snippet of their own
C1_Witness ==
  \E f \in Stored(feedbacks) : \E s \in Stored(snippets) : s.userId = f.reviewerId

\* C2: a 200 response of GET /api/code/random never carries a snippet that the
\* requester owns, whatever was inserted between its count and its select.
C2_NeverOwnSnippet ==
  (Answered("random") /\ sent.res.status = 200 /\ sent.res.body # Null)
    => sent.res.body.userId # sent.user.id

\* the request just answered with a snippet came from a requester who owns the
\* first stored snippet, so that an unfiltered select at its offset 0 would have
\* returned the requester's own
C2_Witness ==
  /\ Answered("random") /\ sent.res.status = 200 /\ sent.res.body # Null
  /\ Len(snippets) = MaxSnippets
  /\ snippets[1].userId = sent.user.id
  /\ sent.local.random = 0

\* the credential of request q does not pass authenticate's header test and
\* jwt.verify at instant now
BadHeader(q, now) ==
  \/ q.header.scheme # "Bearer"
  \/ ~q.header.token.sig
  \/ ClockTimestamp(now) >= q.header.token.exp

\* C3: a request for a protected route whose authorization header is absent, has
\* no 'Bearer ' prefix, or carries a malformed or expired token does not get past
\* the header test; one whose token names no stored user is answered at the
\* lookup; each such request is answered 401 with its handler never entered, and
\* no step that answers 401 changes a collection.
C3_GuardRejects ==
  [][/\ \A r \in Reqs :
          (Free(r) /\ ~Free(r)' /\ req'[r].op \in Protected)
            => ~BadHeader(req'[r], clock)
     /\ \A r \in Reqs :
          (At(r, "auth_findById") /\ req'[r] # req[r]
             /\ \A u \in Stored(users) : u.id # req[r].header.token.id)
            => (Free(r)' /\ sent'.pc = "done" /\ sent'.res.status = 401)
     /\ (sent'.pc = "done" /\ sent'.op \in Protected /\ req' = req)
          => (BadHeader(sent', clock) /\ sent'.res.status = 401)
     /\ (sent'.pc = "done" /\ sent'.op \in Protected /\ sent'.res.status = 401)
          => (~sent'.started /\ stores' = stores)
    ]_vars

\* a protected request with a well-signed, unexpired token of an identity the
\* store does not hold has been answered 401
C3_Witness ==
  /\ sent.pc = "done" /\ sent.op \in Protected
  /\ ~BadHeader(sent, clock)
  /\ sent.res.status = 401 /\ ~sent.started

\* a token a client got from register or login (not the left-over ones)
Issued(q) ==
  /\ q.header.scheme = "Bearer"
  /\ q.header.token.sig
  /\ q.header.token.id # UnknownId

\* request r has just passed authenticate's header test and jwt.verify
Admitted(r) == Free(r) /\ ~Free(r)' /\ req'[r].op \in Protected
\* a protected request has just been answered by the header test or jwt.verify
Rejected == sent'.pc = "done" /\ sent'.op \in Protected /\ req' = req
\* request r has just come back from authenticate's lookup
LookedUp(r) == At(r, "auth_findById") /\ req'[r] # req[r]
\* the identity attached to request r by that step
Resolved(r) == IF Free(r)' THEN sent'.user ELSE req'[r].user

\* C4 as stated: a token issued at instant t is accepted, as its identity, at
\* every instant strictly before t + 1 hour and rejected as expired from
\* t + 1 hour on.
C4_ValidForOneHour ==
  [][/\ (Rejected /\ Issued(sent') /\ clock < sent'.tokenAt + TicksPerHour)
          => FALSE
     /\ (Rejected /\ Issued(sent') /\ clock >= sent'.tokenAt + TicksPerHour)
          => sent'.res = Response(401, Message("Token expired"))
     /\ \A r \in Reqs :
          (Admitted(r) /\ Issued(req'[r]))
            => clock < req'[r].tokenAt + TicksPerHour
     /\ \A r \in Reqs :
          (LookedUp(r) /\ Issued(req[r]))
            => (Resolved(r) # Null /\ Resolved(r).id = req[r].header.token.id)
    ]_vars

\* C4 (amended): jsonwebtoken counts in whole seconds.  A token issued at instant
\* t is accepted, as its identity, while the clock's whole seconds are fewer than
\* those of t plus 3600, and rejected as expired from then on; so it is accepted
\* until t + 1 hour - 1 second at least, and rejected from t + 1 hour on.
C4_ValidForOneHourOfSeconds ==
  [][/\ (Rejected /\ Issued(sent'))
          => /\ clock \div TicksPerSecond >= sent'.tokenAt \div TicksPerSecond + ExpiresIn
             /\ clock > sent'.tokenAt + TicksPerHour - TicksPerSecond
             /\ sent'.res = Response(401, Message("Token expired"))
     /\ \A r \in Reqs :
          (Admitted(r) /\ Issued(req'[r]))
            => /\ clock \div TicksPerSecond < req'[r].tokenAt \div TicksPerSecond + ExpiresIn
               /\ clock < req'[r].tokenAt + TicksPerHour
     /\ \A r \in Reqs :
          (LookedUp(r) /\ Issued(req[r]))
            => (Resolved(r) # Null /\ Resolved(r).id = req[r].header.token.id)
    ]_vars

\* a token signed in the middle of a second has been rejected as expired less
\* than an hour after it was signed
C4_Witness ==
  /\ sent.pc = "done" /\ sent.op \in Protected /\ Issued(sent)
  /\ sent.res = Response(401, Message("Token expired"))
  /\ clock < sent.tokenAt + TicksPerHour

\* C5: feedback with a non-empty text on a stored snippet that the requester owns
\* is answered 403, and the step that answers 403 stores no feedback.
C5_OwnSnippetForbidden ==
  /\ []((/\ Answered("feedback") /\ sent.started
         /\ sent.body.feedbackText # Empty
         /\ \E s \in Stored(snippets) :
              s.id = sent.body.codeSnippetId /\ s.userId = sent.user.id)
          => sent.res.status = 403)
  /\ [][(sent'.pc = "done" /\ sent'.op = "feedback" /\ sent'.res.status = 403)
          => feedbacks' = feedbacks]_vars

\* a requester has been refused feedback on a snippet of their own
C5_Witness ==
  /\ Answered("feedback") /\ sent.res.status = 403
  /\ \E s \in Stored(snippets) :
       s.id = sent.body.codeSnippetId /\ s.userId = sent.user.id

\* C6: when no snippet of another owner is stored, the review pick is answered
\* NotFound (404), by server.js and by the router alike.
C6_NotFoundWhenNothingEligible ==
  /\ (Answered("random") /\ sent.started /\ Len(Eligible(sent.user.id)) = 0)
       => sent.res.status = 404
  /\ (Answered("r_random") /\ sent.started /\ Len(CodesNotOf(sent.user.id)) = 0)
       => sent.res.status = 404

\* C7: GET /api/code/my-submissions fetches each stored snippet of the requester
\* exactly once and no other, answers with these snippets, and attaches to each,
\* in a field that is always present, exactly the stored feedback whose
\* codeSnippetId is the snippet's id, each once.
C7_ExactJoin ==
  /\ [][\A r \in Reqs :
          (At(r, "mine_find") /\ req'[r].pc = "mine_feedbacks")
            => LET got == req'[r].local IN
               /\ \A s \in Stored(snippets) :
                    s.userId = req[r].user.id
                      => Cardinality({i \in 1..Len(got) : got[i].id = s.id}) = 1
               /\ \A i \in 1..Len(got) :
                    got[i] \in Stored(snippets) /\ got[i].userId = req[r].user.id
       ]_vars
  /\ []((Answered("mine") /\ sent.started)
          => LET body == sent.res.body
                 owned == sent.local IN
             /\ sent.res.status = 200
             /\ Len(body) = Len(owned)
             /\ \A i \in 1..Len(body) :
                  /\ body[i].id = owned[i].id
                  /\ body[i].code = owned[i].code
                  /\ body[i].userId = sent.user.id
                  /\ "feedbacks" \in DOMAIN body[i]
                  /\ LET group == body[i].feedbacks IN
                     /\ {group[k].id : k \in 1..Len(group)}
                          = {f.id : f \in {x \in Stored(feedbacks) :
                                             x.codeSnippetId = body[i].id}}
                     /\ \A k, l \in 1..Len(group) : k # l => group[k].id # group[l].id
                     /\ \A k \in 1..Len(group) :
                          group[k].codeSnippetId = body[i].id)

\* the answer lists two snippets, one with a feedback and one with none
C7_Witness ==
  /\ Answered("mine") /\ sent.started
  /\ Len(sent.res.body) = 2
  /\ \E i, j \in 1..2 :
       Len(sent.res.body[i].feedbacks) = 1 /\ Len(sent.res.body[j].feedbacks) = 0

\* C8: a login with a non-empty email and a non-empty password that is not the
\* password of a stored user with that email gets one and the same response, 401
\* 'Invalid credentials', whether or not a user with the email is stored.
C8_SameDenial ==
  (/\ Answered("login")
   /\ sent.body.email # Empty /\ sent.body.password # Empty
   /\ ~\E u \in Stored(users) :
         u.email = sent.body.email /\ u.password = Hash(sent.body.password))
    => sent.res = Response(401, Message("Invalid credentials"))

\* a login with the wrong password for a registered email has been denied
C8_Witness ==
  /\ Answered("login") /\ sent.res.status = 401
  /\ sent.body.password \in WrongPasswords
  /\ \E u \in Stored(users) : u.email = sent.body.email

\* C9: a login with the credentials that register answered 201 for before the
\* login arrived succeeds and returns the user object register returned.
C9_LoginAfterRegister ==
  (Answered("login") /\ sent.prior # Null)
    => (sent.res.status = 200 /\ sent.res.body.user = sent.prior)

\* such a login has been answered after a second identity was registered
C9_Witness ==
  /\ Answered("login") /\ sent.prior # Null /\ sent.res.status = 200
  /\ Len(users) >= 2

\* C10: a register request with an email and a password that creates no
\* identity is answered 409.
C10_TakenEmailIsConflict ==
  (/\ Answered("register")
   /\ sent.body.email # Empty /\ sent.body.password # Empty
   /\ sent.res.status # 201)
    => sent.res.status = 409

\* C11: a review pick that got past its guard and is answered with a success
\* status carries a snippet, also when eligible snippets were deleted between
\* its count and its select (the other outcome allowed is 404).
C11_NoEmptySuccess ==
  (Answered("random") /\ sent.started)
    => (\/ sent.res.status = 404
        \/ sent.res.status = 200 /\ sent.res.body # Null)

Refusals == {400, 401, 403, 404, 409}

\* C12: the step that answers a register, login, code or feedback request with
\* 400, 401, 403, 404 or 409 leaves the stores as they were, and a store changes
\* only in the step that answers 201: a request that ends in one of these
\* refusals has written nothing.
C12_RefusalsWriteNothing ==
  [][/\ (/\ sent'.pc = "done"
          /\ sent'.op \in {"register", "login", "code", "feedback"}
          /\ sent'.res.status \in Refusals) => stores' = stores
     /\ stores' # stores => (sent'.pc = "done" /\ sent'.res.status = 201)]_vars

\* a feedback request has been refused while another request, already past its
\* checks, is about to create its record
C12_Witness ==
  /\ Answered("feedback") /\ sent.res.status \in {403, 404}
  /\ \E r \in Reqs : req[r].pc \in {"code_create", "feedback_create", "register_create"}

\* C13: a feedback request that got past its guard is answered 400 when its
\* snippet id or its text is absent or empty, whatever is stored; 404 when both
\* are given and no stored snippet has the id; and 403 only for the id of a
\* stored snippet.
C13_CheckOrder ==
  (Answered("feedback") /\ sent.started)
    => LET body == sent.body
           exists == \E s \in Stored(snippets) : s.id = body.codeSnippetId
           given == body.codeSnippetId # IdAbsent /\ body.feedbackText # Empty
       IN /\ ~given => sent.res.status = 400
          /\ (given /\ ~exists) => sent.res.status = 404
          /\ sent.res.status = 403 => exists

\* C14: the list of a requester's own submissions never shows a submission before
\* one that was both made and stored earlier, in the answer of
\* GET /api/code/my-submissions and in that of the router's GET /mine.
C14_EarliestFirst ==
  /\ (Answered("mine") /\ sent.started)
       => \A i, j \in 1..Len(sent.res.body) :
            i < j => sent.res.body[i].id < sent.res.body[j].id
  /\ (Answered("r_mine") /\ sent.started)
       => LET listed == sent.res.body.codes IN
          \A i, j \in 1..Len(listed) :
            i < j => (\/ listed[i].createdAt <= listed[j].createdAt
                      \/ listed[i].id < listed[j].id)

\* the stored snippets that id does not own
Others(id) == {s \in Stored(snippets) : s.userId # id}

Readers ==
  {"auth_findById", "login_findOne", "login_compare",
   "random_count", "random_findOne", "mine_find", "mine_feedbacks"}

\* C15: no step of the guard, of login, of the review pick or of the list of own
\* submissions changes a store; and what a review pick can answer is decided by
\* the stores and the requester alone: at its count it answers 404 when the
\* requester's eligible set is empty and else can draw each offset into that set
\* and no other, and at its select it answers with the eligible snippet at the
\* offset it drew.
C15_ReadersKeepNoState ==
  /\ [][/\ \A r \in Reqs :
             (req'[r] # req[r] /\ (Free(r) \/ req[r].pc \in Readers))
               => stores' = stores
        /\ \A r \in Reqs :
             (At(r, "random_count") /\ req'[r] # req[r])
               => IF Others(req[r].user.id) = {}
                  THEN sent'.pc = "done" /\ sent'.res.status = 404
                  ELSE /\ req'[r].pc = "random_findOne"
                       /\ req'[r].local.random
                            \in 0..(Cardinality(Others(req[r].user.id)) - 1)
        /\ \A r \in Reqs :
             (At(r, "random_findOne") /\ req'[r] # req[r])
               => /\ sent'.pc = "done" /\ sent'.res.status = 200
                  /\ sent'.res.body \in Others(req[r].user.id)
                  /\ Cardinality({s \in Others(req[r].user.id) :
                                    s.id < sent'.res.body.id}) = req[r].local.random
       ]_vars
  /\ [](\A r \in Reqs :
          At(r, "random_count")
            => \A k \in 0..(Cardinality(Others(req[r].user.id)) - 1) :
                 ENABLED (RandomCount(r) /\ req'[r].local.random = k))

\* a requester who was answered a pick asks again against the same snippets, and
\* two offsets are open to the second call
C15_Witness ==
  /\ Answered("random") /\ sent.res.status = 200
  /\ \E r \in Reqs :
       /\ At(r, "random_count") /\ req[r].user = sent.user
       /\ Cardinality(Others(sent.user.id)) = 2

\* the orders in which a query can iterate over the documents of S
Orders(S) ==
  {order \in [1..Cardinality(S) -> S] :
     \A i, j \in 1..Cardinality(S) : i # j => order[i] # order[j]}

\* the stored codes of the router that id did not submit
OtherCodes(id) == {c \in Stored(codes) : c.user # id}

\* C16: for every requester and every order in which the repository iterates,
\* each eligible snippet is what exactly one of the offsets a call can draw
\* selects, in server.js (findOne with skip) and in the router (index into the
\* array found): equally likely offsets make equally likely snippets.  And a call
\* can draw each of these offsets: server.js at its count, the router at its find.
C16_OneOffsetEach ==
  /\ \A u \in Stored(users) :
       /\ \A order \in Orders(Others(u.id)) : \A s \in Others(u.id) :
            Cardinality({o \in Offsets(Len(order)) : FindOneSkip(order, o) = s}) = 1
       /\ \A order \in Orders(OtherCodes(u.id)) : \A c \in OtherCodes(u.id) :
            Cardinality({o \in Offsets(Len(order)) : ArrayPick(order, o) = c}) = 1
  /\ \A r \in Reqs :
       At(r, "random_count")
         => \A k \in 0..(Cardinality(Others(req[r].user.id)) - 1) :
              ENABLED (RandomCount(r) /\ req'[r].local.random = k)
  /\ \A r \in Reqs :
       At(r, "rrandom_find")
         => \A c \in OtherCodes(req[r].user.id) :
              ENABLED (RouterRandomFind(r) /\ sent'.res.body.id = c.id)

\* a pick of server.js and a pick of the router each have two to choose from
C16_Witness ==
  /\ \E r \in Reqs :
       At(r, "random_count") /\ Cardinality(Others(req[r].user.id)) = 2
  /\ \E r \in Reqs :
       At(r, "rrandom_find") /\ Cardinality(OtherCodes(req[r].user.id)) = 2

\* C17: no two stored users have the same email.
C17_UniqueEmail ==
  \A i, j \in 1..Len(users) : i # j => users[i].email # users[j].email

\* of two registers for one email that both passed the lookup, the second insert
\* has just been refused
C17_Witness ==
  /\ Answered("register") /\ sent.res.status = 500
  /\ \E u \in Stored(users) : u.email = sent.body.email

\* C18: a snippet or a feedback is stored only by the create step of a request
\* that presented a verified token, it is stored with the id that token names,
\* which is the id of a stored user, as its owner or reviewer, whatever identity
\* the body of the request names, and the records stored before stay as they are.
C18_AttributedToTokenHolder ==
  [][/\ snippets' # snippets
          => \E r \in Reqs :
               /\ At(r, "code_create") /\ Free(r)'
               /\ req[r].header.scheme = "Bearer" /\ req[r].header.token.sig
               /\ \E s \in Stored(snippets') :
                    /\ snippets' = Append(snippets, s)
                    /\ s.userId = req[r].header.token.id
                    /\ \E u \in Stored(users) : u.id = s.userId
     /\ feedbacks' # feedbacks
          => \E r \in Reqs :
               /\ At(r, "feedback_create") /\ Free(r)'
               /\ req[r].header.scheme = "Bearer" /\ req[r].header.token.sig
               /\ \E f \in Stored(feedbacks') :
                    /\ feedbacks' = Append(feedbacks, f)
                    /\ f.reviewerId = req[r].header.token.id
                    /\ \E u \in Stored(users) : u.id = f.reviewerId
    ]_vars

\* a feedback whose request named another identity as its reviewer has just been
\* stored for the holder of the token
C18_Witness ==
  /\ Answered("feedback") /\ sent.res.status = 201
  /\ sent.body.reviewerId \notin {IdAbsent, sent.header.token.id}
  /\ sent.res.body.reviewerId = sent.header.token.id

\* C19: every request in flight is eventually answered; a request leaves its slot
\* only with its response sent, and sent once; no request in flight has been
\* answered; and for a route behind the guard the 401 of the guard goes to a
\* request whose handler never started, every other answer to one whose handler
\* did.
C19_ExactlyOneResponse ==
  /\ \A r \in Reqs : (~Free(r)) ~> Free(r)
  /\ [][\A r \in Reqs :
          (~Free(r) /\ Free(r)')
            => (sent'.pc = "done" /\ sent'.sends = 1 /\ sent'.res # NoResponse)]_vars
  /\ [](\A r \in Reqs : req[r].sends = 0 /\ req[r].res = NoResponse)
  /\ [](sent.pc = "done"
          => /\ sent.sends = 1 /\ sent.res # NoResponse
             /\ sent.op \in Protected => (sent.started <=> sent.res.status # 401))

\* a request is answered by the catch block of its handler while another is
\* still in flight
C19_Witness ==
  /\ sent.pc = "done" /\ sent.res.status = 500 /\ sent.op \in Protected
  /\ \E r \in Reqs : ~Free(r)

====
